---- MODULE Spec2Model ----
(***************************************************************************)
(* Model of the bill-analysis service (app/api/endpoints.py and the        *)
(* services it drives).  One HTTP handler creates a task_status entry and  *)
(* schedules process_bill_analysis; that coroutine runs the four steps     *)
(* upload, OCR, AI parse, database insert, one after the other, and        *)
(* writes its progress into task_status; get_task_status reads the entry.  *)
(*                                                                         *)
(* A step of the model is one stretch of a coroutine between two awaits    *)
(* (asyncio runs such a stretch without interleaving).  Strings that the   *)
(* code builds are sequences of characters or tokens; the Chinese literals *)
(* of the source are written as English tokens.                            *)
(*                                                                         *)
(* OcrSpec looks at one call of the OCR service in detail: the confidence  *)
(* filter of extract_text_from_image and _reconstruct_text, applied to     *)
(* every list of up to MaxFrags detections.                                *)
(***************************************************************************)
EXTENDS Integers, Sequences, FiniteSets, TLC

\* ------------------------------------------------------------------ bounds
NumJobs == 2                       \* task ids uuid4 may hand out in a run
Jobs == 1..NumJobs
UnknownId == NumJobs + 1           \* an id uuid4 never handed out
PollIds == Jobs \cup {UnknownId}

\* --------------------------------------------------------------- constants
None == <<>>                       \* a dict key that is absent / Python None
Some(v) == <<v>>                   \* a value that is present
ValueOf(o) == o[1]
MinTextLen == 10                   \* endpoints.py:90, ai_agent.py:79

\* progress messages written by analyze_bill and process_bill_analysis; a
\* message is a sequence of tokens, like every string the model compares
MsgStart == <<"start processing image">>
MsgUpload == <<"uploading image to MinIO">>
MsgOcr == <<"running OCR">>
MsgParse == <<"AI parsing bill content">>
MsgSave == <<"saving to database">>
MsgDone == <<"processing finished">>
MsgFailed == <<"processing failed">>

\* ------------------------------------------------------------------- text
Chars(n, c) == [i \in 1..n |-> c]
IsSpace(c) == c \in {" ", "\n"}

RECURSIVE LStrip(_)
LStrip(s) == IF s # <<>> /\ IsSpace(Head(s)) THEN LStrip(Tail(s)) ELSE s

RECURSIVE RStrip(_)
RStrip(s) ==
    IF s # <<>> /\ IsSpace(s[Len(s)]) THEN RStrip(SubSeq(s, 1, Len(s) - 1)) ELSE s

\* str.strip()
Strip(s) == RStrip(LStrip(s))

\* exception messages str(e): an exception may carry no text at all
ExcMsgs == {<<>>, <<"e">>}
\* the message of a failing storage, model or database call
ErrMsgs == {<<"e">>}

\* f"<prefix>: {e}"
Wrap(prefix, e) == <<prefix>> \o e

\* ocr_service.py:162  f"image text recognition failed: {e}" ; the literal
\* part is eight characters followed by a colon and a space
OcrErrPrefix == Chars(8, "x") \o <<":", " ">>
OcrErrorText(e) == OcrErrPrefix \o e

\* texts extract_text_from_image returns when no exception occurs
OcrTexts ==
    { <<>>,
      Chars(MinTextLen - 1, "x"),
      <<" ">> \o Chars(MinTextLen - 1, "x") \o <<" ">>,
      <<" ">> \o Chars(MinTextLen, "x") \o <<" ">> }

\* the length test without strip()
TextTooShort_NoStrip(t) == t = <<>> \/ Len(t) < MinTextLen

\* endpoints.py:90  not bill_text or len(bill_text.strip()) < 10
TextTooShort(t) == t = <<>> \/ Len(Strip(t)) < MinTextLen

InsufficientText == <<"cannot recognise enough text in the image">>

\* amounts the language model may put into its JSON answer
Amounts == {-5, 5}

\* ------------------------------------------------ OCR text reconstruction
MaxFrags == 3                      \* fragments in one detection result
y_threshold == 20                  \* ocr_service.py:25
MinScore == 5                      \* ocr_service.py:148, 0.5 in tenths

Abs(n) == IF n < 0 THEN 0 - n ELSE n
Min(S) == CHOOSE m \in S : \A n \in S : m <= n

\* a corner of a detection polygon; an x that is None stands for a corner
\* the detector left without a number
Pt(x, y) == [x |-> Some(x), y |-> y]
PtNoX(y) == [x |-> None, y |-> y]
\* the 'position' of a text block: a list of corners, or a float
Poly(pts) == [kind |-> "list", pts |-> pts]
Float(v) == [kind |-> "float", pts |-> <<v>>]

\* What predict() may detect: a text, its score in tenths and its polygon,
\* given by two opposite corners (the lower one first).
Det(text, score, pts) == [text |-> text, score |-> score, poly |-> Poly(pts)]
Detections ==
    { Det(<<"A">>, 9, <<Pt(40, 10), Pt(0, 0)>>),
      Det(<<"B">>, 9, <<Pt(140, 10), Pt(100, 0)>>),
      Det(<<"C">>, 9, <<Pt(40, 25), Pt(0, 15)>>),
      Det(<<"D">>, 6, <<Pt(40, 40), Pt(0, 30)>>),
      Det(<<"E">>, 6, <<Pt(40, 60), Pt(0, 50)>>),
      Det(<<" ", "F">>, 9, <<Pt(90, 10), Pt(50, 0)>>),
      Det(<<"L">>, 4, <<Pt(40, 10), Pt(0, 0)>>),
      Det(<<"M">>, 5, <<Pt(140, 60), Pt(100, 50)>>),
      Det(<<"G">>, 9, <<PtNoX(10), PtNoX(0)>>) }

RECURSIVE SeqsUpTo(_, _)
SeqsUpTo(S, n) ==
    IF n = 0 THEN {<<>>}
    ELSE LET shorter == SeqsUpTo(S, n - 1) IN
         shorter \cup {Append(q, d) : q \in {r \in shorter : Len(r) = n - 1}, d \in S}

\* the zipped rec_texts, rec_scores, rec_polys of one predict() result
OcrResults == SeqsUpTo(Detections, MaxFrags)

\* ocr_service.py:20, 31-32  min(point[1] for point in x['position']) ; a
\* float is not iterable and the generator raises
YKeyRaises(block) == block.position.kind # "list" \/ block.position.pts = <<>>
MinY(block) == Min({block.position.pts[i].y : i \in DOMAIN block.position.pts})

\* ocr_service.py:38, 43  min(point[0] for point in x['position']) ; min()
\* raises when it compares None with a number or with None
XKeyRaises(block) ==
    \/ YKeyRaises(block)
    \/ /\ Len(block.position.pts) > 1
       /\ \E i \in DOMAIN block.position.pts : block.position.pts[i].x = None
MinX(block) == Min({ValueOf(block.position.pts[i].x) : i \in DOMAIN block.position.pts})

\* list.sort(key=...) with keys[i] the key of s[i]: a stable sort, the
\* element at index i goes behind all elements with a smaller key and the
\* earlier ones with an equal key
SortBy(s, keys) ==
    LET n == Len(s)
        pos(i) == 1 + Cardinality({j \in 1..n :
                        \/ keys[j] < keys[i]
                        \/ keys[j] = keys[i] /\ j < i})
    IN [p \in 1..n |-> s[CHOOSE i \in 1..n : pos(i) = p]]

\* a line that is appended as it was grouped
SortLine_KeepOrder(line) == line

\* ocr_service.py:38, 43  current_line.sort(key=min x)
SortLine(line) == SortBy(line, [i \in DOMAIN line |-> MinX(line[i])])

\* the test of line 34 made against the first block of the current line
SameLine_FirstBlock(current_line, block) ==
    Abs(MinY(block) - MinY(current_line[1])) <= y_threshold

\* ocr_service.py:31-34  the block is compared with current_line[-1]
SameLine(current_line, block) ==
    Abs(MinY(block) - MinY(current_line[Len(current_line)])) <= y_threshold

\* a grouping that forgets the line still open when the loop ends
RECURSIVE GroupLines_DropsOpenLine(_, _, _)
GroupLines_DropsOpenLine(blocks, lines, current_line) ==
    IF blocks = <<>>
    THEN lines
    ELSE LET block == Head(blocks) IN
         IF current_line = <<>>
         THEN GroupLines_DropsOpenLine(Tail(blocks), lines, <<block>>)
         ELSE IF SameLine(current_line, block)
         THEN GroupLines_DropsOpenLine(Tail(blocks), lines, Append(current_line, block))
         ELSE GroupLines_DropsOpenLine(Tail(blocks),
                                       Append(lines, SortLine(current_line)), <<block>>)

\* ocr_service.py:27-44  the grouping loop and the statement after it
RECURSIVE GroupLines(_, _, _)
GroupLines(blocks, lines, current_line) ==
    IF blocks = <<>>
    THEN IF current_line # <<>> THEN Append(lines, SortLine(current_line)) ELSE lines
    ELSE LET block == Head(blocks) IN
         IF current_line = <<>>
         THEN GroupLines(Tail(blocks), lines, <<block>>)
         ELSE IF SameLine(current_line, block)
         THEN GroupLines(Tail(blocks), lines, Append(current_line, block))
         ELSE GroupLines(Tail(blocks), Append(lines, SortLine(current_line)), <<block>>)

\* sep.join(texts)
RECURSIVE Join(_, _)
Join(sep, texts) ==
    IF texts = <<>> THEN <<>>
    ELSE IF Len(texts) = 1 THEN texts[1]
    ELSE texts[1] \o sep \o Join(sep, Tail(texts))

Texts(blocks) == [i \in DOMAIN blocks |-> blocks[i].text]

\* ocr_service.py:47-50  result_text += " ".join(texts of line) + "\n"
RECURSIVE ResultText(_)
ResultText(lines) ==
    IF lines = <<>> THEN <<>>
    ELSE Join(<<" ">>, Texts(Head(lines))) \o <<"\n">> \o ResultText(Tail(lines))

\* ocr_service.py:53-56  the except branch joins text_blocks as the list is
\* when the exception arrives
Fallback(text_blocks) ==
    [text |-> Join(<<" ">>, Texts(text_blocks)), text_blocks |-> text_blocks,
     lines |-> <<>>, path |-> "fallback"]

\* ocr_service.py:13-56  _reconstruct_text(text_blocks): the returned text,
\* the list text_blocks as the call leaves it (sort() works in place), the
\* lines it built and the path it took.  A key function that raises leaves
\* the list of that sort() call as it was.
reconstruct_text(text_blocks) ==
    IF text_blocks = <<>>
    THEN [text |-> <<>>, text_blocks |-> text_blocks, lines |-> <<>>, path |-> "empty"]
    ELSE IF \E i \in DOMAIN text_blocks : YKeyRaises(text_blocks[i])
    THEN Fallback(text_blocks)
    ELSE LET sorted == SortBy(text_blocks, [i \in DOMAIN text_blocks |->
                                              MinY(text_blocks[i])]) IN
         IF \E i \in DOMAIN sorted : XKeyRaises(sorted[i])
         THEN Fallback(sorted)
         ELSE LET lines == GroupLines(sorted, <<>>, <<>>) IN
              [text |-> Strip(ResultText(lines)), text_blocks |-> sorted,
               lines |-> lines, path |-> "primary"]

\* a filter that also keeps a score of exactly one half
Keeps_AtLeast(score) == score >= MinScore

\* ocr_service.py:148  if score > 0.5
Keeps(score) == score > MinScore

\* the blocks a caller passes that hands every text its own polygon; idx is
\* a ghost key, the place of the block in the list passed in
BlocksOf(result) ==
    [i \in DOMAIN result |->
        [text |-> result[i].text, score |-> result[i].score,
         position |-> result[i].poly, idx |-> i]]

\* ocr_service.py:144-153  zip(rec_texts, rec_scores, rec_scores): the third
\* element, stored as 'position', is the score again
RECURSIVE CollectBlocks(_, _)
CollectBlocks(result, i) ==
    IF i > Len(result) THEN <<>>
    ELSE LET rest == CollectBlocks(result, i + 1)
             block == [text |-> result[i].text, score |-> result[i].score,
                       position |-> Float(result[i].score), idx |-> i] IN
         IF Keeps(result[i].score) THEN <<block>> \o rest ELSE rest

\* ---------------------------------------------------------- request inputs
\* An upload request: UploadFile.content_type split at the slash,
\* UploadFile.filename split at the dots, and what await image.read() does.
GoodRequest == [content_type |-> <<"image", "png">>, filename |-> <<"bill", "png">>,
                read |-> "ok"]
Requests ==
    { GoodRequest,
      [GoodRequest EXCEPT !.content_type = <<"text", "plain">>],
      [GoodRequest EXCEPT !.content_type = None],
      [GoodRequest EXCEPT !.read = "raise"],
      [GoodRequest EXCEPT !.filename = None] }

\* endpoints.py:38  image.content_type.startswith('image/') ; None has no
\* startswith and raises AttributeError
ContentTypeCheck(ct) ==
    IF ct = None THEN "raise" ELSE IF ct[1] = "image" THEN "image" ELSE "reject"

\* endpoints.py:54  filename.split('.')[-1] if '.' in filename else 'jpg'
FileExtension(f) == IF Len(f) > 1 THEN f[Len(f)] ELSE "jpg"

\* ------------------------------------------------------------------ state
VARIABLES
    task_status,   \* endpoints.py:27, dict task_id -> status dict
    pc,            \* where each task id / background task stands
    frame,         \* locals of each process_bill_analysis call
    bill_records,  \* rows of table bill_records
    now,           \* the value time.time() returns next
    resp,          \* the last HTTP response sent
    returned,      \* ghost: task ids analyze_bill has returned to a caller
    calls,         \* ghost: how often each step was invoked per task
    raised,        \* ghost: the message of the exception that reached the
                   \*        handler of process_bill_analysis
    ocr_out,       \* ghost: what happened inside extract_text_from_image
    ocr,           \* one call of the OCR service looked at in detail: the
                   \* predict() result, the blocks passed to
                   \* _reconstruct_text and what the call returned
    health         \* GET /health: how far the running request is, the
                   \* services_status it has filled in, and the last
                   \* response sent

vars == <<task_status, pc, frame, bill_records, now, resp, returned, calls,
          raised, ocr_out, ocr, health>>

NoFrame == [file_extension |-> None, image_path |-> None, bill_text |-> None,
            bill_record |-> None]
NoCalls == [upload |-> 0, ocr |-> 0, parse |-> 0, persist |-> 0]
NoResp == [op |-> "none", code |-> 0, id |-> None, body |-> None]

\* endpoints.py:43-47 ; keys the dict does not have yet are None
NewEntry(t) ==
    [status |-> "processing", start_time |-> t, message |-> MsgStart,
     image_path |-> None, ocr_text_length |-> None, record_id |-> None,
     processing_time |-> None, error_message |-> None]

\* no call of _reconstruct_text has been made on result
OcrIdle(result) ==
    [result |-> result, call |-> "none", given |-> <<>>,
     out |-> [text |-> <<>>, text_blocks |-> <<>>, lines |-> <<>>, path |-> "none"]]

\* services_status before health_check has filled it in; db is a ghost,
\* what happened inside check_connection
NoStatus == [minio |-> None, database |-> None, ai_service |-> None, db |-> None]
\* no health request is running and none was answered
HealthIdle == [at |-> "idle", services_status |-> NoStatus, code |-> 0,
               content |-> NoStatus]

Init ==
    /\ ocr = OcrIdle(<<>>)
    /\ health = HealthIdle
    /\ task_status = <<>>
    /\ pc = [j \in Jobs |-> "unused"]
    /\ frame = [j \in Jobs |-> NoFrame]
    /\ bill_records = {}
    /\ now = 0
    /\ resp = NoResp
    /\ returned = {}
    /\ calls = [j \in Jobs |-> NoCalls]
    /\ raised = [j \in Jobs |-> None]
    /\ ocr_out = [j \in Jobs |-> None]

\* task_status[task_id] = entry
SetEntry(j, entry) ==
    [k \in (DOMAIN task_status) \cup {j} |-> IF k = j THEN entry ELSE task_status[k]]

\* uuid.uuid4(): an id no earlier call returned
FreshId == CHOOSE j \in Jobs : pc[j] = "unused" /\ \A k \in Jobs : pc[k] = "unused" => j <= k

\* ------------------------------------------------------- POST /analyze-bill
\* analyze_bill that returns the task id without storing the entry first
analyze_bill_NoEntry(image) ==
    /\ ContentTypeCheck(image.content_type) = "image"
    /\ image.read = "ok" /\ image.filename # None
    /\ \E j \in Jobs : pc[j] = "unused"
    /\ LET j == FreshId IN
       /\ pc' = [pc EXCEPT ![j] = "scheduled"]
       /\ frame' = [frame EXCEPT ![j].file_extension =
                        Some(FileExtension(image.filename))]
       /\ returned' = returned \cup {j}
       /\ resp' = [op |-> "submit", code |-> 200, id |-> Some(j), body |-> None]
    /\ UNCHANGED <<ocr, health, task_status, now, bill_records, calls, raised, ocr_out>>

\* analyze_bill that stores the entry before it looks at the content type
analyze_bill_CheckAfterEntry(image) ==
    /\ \E j \in Jobs : pc[j] = "unused"
    /\ LET j == FreshId IN
       /\ task_status' = SetEntry(j, NewEntry(now))
       /\ now' = now + 1
       /\ IF \/ ContentTypeCheck(image.content_type) # "image"
             \/ image.read = "raise" \/ image.filename = None
          THEN /\ pc' = [pc EXCEPT ![j] = "orphan"]
               /\ resp' = [op |-> "submit", code |-> 500, id |-> None,
                           body |-> None]
               /\ UNCHANGED <<frame, returned>>
          ELSE /\ pc' = [pc EXCEPT ![j] = "scheduled"]
               /\ frame' = [frame EXCEPT ![j].file_extension =
                                Some(FileExtension(image.filename))]
               /\ returned' = returned \cup {j}
               /\ resp' = [op |-> "submit", code |-> 200, id |-> Some(j),
                           body |-> None]
    /\ UNCHANGED <<ocr, health, bill_records, calls, raised, ocr_out>>

\* endpoints.py:31-65
analyze_bill(image) ==
    /\ IF ContentTypeCheck(image.content_type) # "image"
       THEN \* HTTPException(400) or AttributeError, both caught at line 63
            \* and answered with status 500
            /\ resp' = [op |-> "submit", code |-> 500, id |-> None, body |-> None]
            /\ UNCHANGED <<task_status, pc, frame, now, returned>>
       ELSE /\ \E j \in Jobs : pc[j] = "unused"
            /\ LET j == FreshId IN
               /\ task_status' = SetEntry(j, NewEntry(now))
               /\ now' = now + 1
               /\ IF image.read = "raise" \/ image.filename = None
                  THEN \* the arguments of add_task raise after the entry
                       \* was stored; no task is scheduled
                       /\ pc' = [pc EXCEPT ![j] = "orphan"]
                       /\ resp' = [op |-> "submit", code |-> 500, id |-> None,
                                   body |-> None]
                       /\ UNCHANGED <<frame, returned>>
                  ELSE /\ pc' = [pc EXCEPT ![j] = "scheduled"]
                       /\ frame' = [frame EXCEPT ![j].file_extension =
                                        Some(FileExtension(image.filename))]
                       /\ returned' = returned \cup {j}
                       /\ resp' = [op |-> "submit", code |-> 200, id |-> Some(j),
                                   body |-> None]
    /\ UNCHANGED <<ocr, health, bill_records, calls, raised, ocr_out>>

\* ------------------------------------------------- GET /task-status/{id}
\* endpoints.py:69-74
get_task_status(id) ==
    /\ resp' = IF id \notin DOMAIN task_status
               THEN [op |-> "get", code |-> 404, id |-> Some(id), body |-> None]
               ELSE [op |-> "get", code |-> 200, id |-> Some(id),
                     body |-> Some(task_status[id])]
    /\ UNCHANGED <<ocr, health, task_status, pc, frame, bill_records, now, returned, calls,
                   raised, ocr_out>>

\* ------------------------------------------------ process_bill_analysis
\* task_status[task_id]["message"] = m
SetMessage(entry, m) == [entry EXCEPT !.message = m]

\* an except branch that writes the failure but lets the coroutine go on
Fail_Continues(j, e) ==
    /\ task_status' = [task_status EXCEPT ![j] =
           [@ EXCEPT !.status = "failed", !.error_message = Some(e),
                     !.message = MsgFailed]]
    /\ UNCHANGED <<pc, frame>>

\* no except branch: the exception ends the coroutine and nothing is written
Fail_Propagates(j, e) ==
    /\ UNCHANGED task_status
    /\ pc' = [pc EXCEPT ![j] = "done"]
    /\ frame' = [frame EXCEPT ![j] = NoFrame]

\* an except branch that stores the fixed text in both fields
Fail_FixedError(j, e) ==
    /\ task_status' = [task_status EXCEPT ![j] =
           [@ EXCEPT !.status = "failed", !.error_message = Some(MsgFailed),
                     !.message = MsgFailed]]
    /\ pc' = [pc EXCEPT ![j] = "done"]
    /\ frame' = [frame EXCEPT ![j] = NoFrame]

\* an except branch that assigns a new dict instead of updating the old one
Fail_ReplacesEntry(j, e) ==
    /\ task_status' = [task_status EXCEPT ![j] =
           [NewEntry(@.start_time) EXCEPT !.status = "failed",
                                          !.error_message = Some(e),
                                          !.message = MsgFailed]]
    /\ pc' = [pc EXCEPT ![j] = "done"]
    /\ frame' = [frame EXCEPT ![j] = NoFrame]

\* endpoints.py:114-120, the except branch: the status dict is updated in
\* one call and the coroutine ends, which drops its locals
Fail(j, e) ==
    /\ task_status' = [task_status EXCEPT ![j] =
           [@ EXCEPT !.status = "failed", !.error_message = Some(e),
                     !.message = MsgFailed]]
    /\ pc' = [pc EXCEPT ![j] = "done"]
    /\ frame' = [frame EXCEPT ![j] = NoFrame]

\* a start that announces the OCR step before the upload has run
StartTask_SkipsUploadMessage(j) ==
    /\ pc[j] = "scheduled"
    /\ task_status' = [task_status EXCEPT ![j] = SetMessage(@, MsgOcr)]
    /\ calls' = [calls EXCEPT ![j].upload = @ + 1]
    /\ pc' = [pc EXCEPT ![j] = "upload"]
    /\ UNCHANGED <<ocr, health, frame, bill_records, now, resp, returned, raised, ocr_out>>

\* a start that writes its message into every entry of task_status
StartTask_WritesAllEntries(j) ==
    /\ pc[j] = "scheduled"
    /\ task_status' = [k \in DOMAIN task_status |-> SetMessage(task_status[k], MsgUpload)]
    /\ calls' = [calls EXCEPT ![j].upload = @ + 1]
    /\ pc' = [pc EXCEPT ![j] = "upload"]
    /\ UNCHANGED <<ocr, health, frame, bill_records, now, resp, returned, raised, ocr_out>>

\* endpoints.py:80-83: the coroutine starts, writes the first message and
\* awaits minio_client.upload_image
StartTask(j) ==
    /\ pc[j] = "scheduled"
    /\ task_status' = [task_status EXCEPT ![j] = SetMessage(@, MsgUpload)]
    /\ calls' = [calls EXCEPT ![j].upload = @ + 1]
    /\ pc' = [pc EXCEPT ![j] = "upload"]
    /\ UNCHANGED <<ocr, health, frame, bill_records, now, resp, returned, raised, ocr_out>>

\* minio_client.py:38  f"bill_images/{uuid.uuid4()}.{file_extension}"
ObjectName(j, ext) == <<"bill_images", j, ext>>

\* what put_object does: it stores the object, raises S3Error, or raises
\* some other exception (a connection error)
UploadOutcomes ==
    {[kind |-> "ok", msg |-> <<>>]}
        \cup [kind : {"S3Error", "Exception"}, msg : ErrMsgs]

\* an upload that is tried a second time when the first try fails
UploadReturn_Retry(j, out) ==
    /\ pc[j] = "upload"
    /\ IF out.kind = "ok"
       THEN LET image_path == <<"bill_images", j, ValueOf(frame[j].file_extension)>> IN
            /\ task_status' = [task_status EXCEPT ![j] =
                   SetMessage([@ EXCEPT !.image_path = Some(image_path)], MsgOcr)]
            /\ frame' = [frame EXCEPT ![j].image_path = Some(image_path)]
            /\ calls' = [calls EXCEPT ![j].ocr = @ + 1]
            /\ pc' = [pc EXCEPT ![j] = "ocr"]
            /\ UNCHANGED raised
       ELSE IF calls[j].upload < 2
       THEN /\ calls' = [calls EXCEPT ![j].upload = @ + 1]
            /\ UNCHANGED <<task_status, pc, frame, raised>>
       ELSE /\ Fail(j, out.msg)
            /\ raised' = [raised EXCEPT ![j] = Some(out.msg)]
            /\ UNCHANGED calls
    /\ UNCHANGED <<ocr, health, bill_records, now, resp, returned, ocr_out>>

\* minio_client.py:35-53 followed by endpoints.py:84-88
UploadReturn(j, out) ==
    /\ pc[j] = "upload"
    /\ IF out.kind = "ok"
       THEN LET image_path == ObjectName(j, ValueOf(frame[j].file_extension)) IN
            /\ task_status' = [task_status EXCEPT ![j] =
                   SetMessage([@ EXCEPT !.image_path = Some(image_path)], MsgOcr)]
            /\ frame' = [frame EXCEPT ![j].image_path = Some(image_path)]
            /\ calls' = [calls EXCEPT ![j].ocr = @ + 1]
            /\ pc' = [pc EXCEPT ![j] = "ocr"]
            /\ UNCHANGED raised
       ELSE LET e == IF out.kind = "S3Error"
                     THEN Wrap("image upload failed: ", out.msg)
                     ELSE out.msg IN
            /\ Fail(j, e)
            /\ raised' = [raised EXCEPT ![j] = Some(e)]
            /\ UNCHANGED calls
    /\ UNCHANGED <<ocr, health, bill_records, now, resp, returned, ocr_out>>

\* what extract_text_from_image does inside its try block: it returns a
\* text, or one of its steps raises
OcrOutcomes ==
    [kind : {"text"}, text : OcrTexts] \cup [kind : {"raise"}, text : ExcMsgs]

\* ocr_service.py:130-162: every exception is caught and turned into a
\* returned string
extract_text_from_image(out) ==
    IF out.kind = "text" THEN out.text ELSE OcrErrorText(out.text)

\* ocr_service.py:130-162 followed by endpoints.py:90-97
OcrReturn(j, out) ==
    /\ pc[j] = "ocr"
    /\ ocr_out' = [ocr_out EXCEPT ![j] = Some(out)]
    /\ LET bill_text == extract_text_from_image(out) IN
       IF TextTooShort(bill_text)
       THEN /\ Fail(j, InsufficientText)
            /\ raised' = [raised EXCEPT ![j] = Some(InsufficientText)]
            /\ UNCHANGED calls
       ELSE /\ task_status' = [task_status EXCEPT ![j] =
                   SetMessage([@ EXCEPT !.ocr_text_length = Some(Len(bill_text))],
                              MsgParse)]
            /\ frame' = [frame EXCEPT ![j].bill_text = Some(bill_text)]
            /\ calls' = [calls EXCEPT ![j].parse = @ + 1]
            /\ pc' = [pc EXCEPT ![j] = "parse"]
            /\ UNCHANGED raised
    /\ UNCHANGED <<ocr, health, bill_records, now, resp, returned>>

\* what the chain prompt | llm | parser does: it returns a JSON object with
\* some amount, or it raises
ParseOutcomes ==
    [kind : {"json"}, amount : Amounts, msg : {<<>>}]
        \cup [kind : {"raise"}, amount : {0}, msg : ErrMsgs]

\* ai_agent.py:14-21: BillRecordModel declares amount as a plain float; the
\* class has no validator, so construction accepts every amount
BillRecordModel(amount) == [valid |-> TRUE, amount |-> amount]

\* ai_agent.py:76-93 ; the result is the model or the message of the
\* exception raised
analyze_bill_text(bill_text, out) ==
    IF TextTooShort(bill_text)
    THEN [ok |-> FALSE, model |-> None,
          msg |-> Wrap("AI bill analysis failed: ", <<"bill text too short to analyse">>)]
    ELSE IF out.kind = "raise"
    THEN [ok |-> FALSE, model |-> None,
          msg |-> Wrap("AI bill analysis failed: ", out.msg)]
    ELSE LET m == BillRecordModel(out.amount) IN
         IF m.valid
         THEN [ok |-> TRUE, model |-> Some(m.amount), msg |-> <<>>]
         ELSE [ok |-> FALSE, model |-> None,
               msg |-> Wrap("AI bill analysis failed: ", <<"validation error">>)]

\* ai_agent.py:76-93 followed by endpoints.py:100-101
ParseReturn(j, out) ==
    /\ pc[j] = "parse"
    /\ LET r == analyze_bill_text(ValueOf(frame[j].bill_text), out) IN
       IF r.ok
       THEN /\ task_status' = [task_status EXCEPT ![j] = SetMessage(@, MsgSave)]
            /\ frame' = [frame EXCEPT ![j].bill_record = r.model]
            /\ calls' = [calls EXCEPT ![j].persist = @ + 1]
            /\ pc' = [pc EXCEPT ![j] = "persist"]
            /\ UNCHANGED raised
       ELSE /\ Fail(j, r.msg)
            /\ raised' = [raised EXCEPT ![j] = Some(r.msg)]
            /\ UNCHANGED calls
    /\ UNCHANGED <<ocr, health, bill_records, now, resp, returned, ocr_out>>

\* database.py:15  record_id defaults to str(uuid.uuid4())
RecordId(j) == <<"record", j>>

\* what the database session does during create_bill_record: everything
\* succeeds; or something raises before the commit of line 112 took effect
\* (the session is rolled back); or the commit of line 112 succeeded and a
\* later statement of the call (line 114, the second commit of line 68, the
\* close of line 74) raises
PersistOutcomes ==
    {[kind |-> "ok", msg |-> <<>>]}
        \cup [kind : {"raise_before_commit", "raise_after_commit"}, msg : ErrMsgs]

\* a create_bill_record that returns the id of a row it never committed
create_bill_record_NoCommit(rows, j, amount, image_path, ocr_text, out) ==
    IF out.kind = "ok"
    THEN [rows |-> rows, ok |-> TRUE, record_id |-> Some(RecordId(j)), msg |-> <<>>]
    ELSE [rows |-> rows, ok |-> FALSE, record_id |-> None,
          msg |-> Wrap("database operation failed: ", out.msg)]

\* database_service.py:86-119 inside get_session (59-74): the rows of the
\* table afterwards and what the caller gets.  task is a ghost column: the
\* task id whose call inserted the row
create_bill_record(rows, j, amount, image_path, ocr_text, out) ==
    LET db_bill == [record_id |-> RecordId(j), amount |-> amount,
                    currency |-> "CNY", image_path |-> image_path,
                    ocr_text |-> ocr_text, status |-> "completed", task |-> j]
    IN  IF out.kind = "ok"
        THEN [rows |-> rows \cup {db_bill}, ok |-> TRUE,
              record_id |-> Some(db_bill.record_id), msg |-> <<>>]
        ELSE [rows |-> IF out.kind = "raise_after_commit"
                       THEN rows \cup {db_bill} ELSE rows,
              ok |-> FALSE, record_id |-> None,
              msg |-> Wrap("database operation failed: ", out.msg)]

\* a completion that sets the status in one step and would write the record
\* id and the duration only after a further await
PersistReturn_TornUpdate(j, out) ==
    /\ pc[j] = "persist"
    /\ LET r == create_bill_record(bill_records, j, ValueOf(frame[j].bill_record),
                                   ValueOf(frame[j].image_path),
                                   ValueOf(frame[j].bill_text), out) IN
       /\ bill_records' = r.rows
       /\ IF r.ok
          THEN /\ task_status' = [task_status EXCEPT ![j] =
                      [@ EXCEPT !.status = "completed", !.message = MsgDone]]
               /\ pc' = [pc EXCEPT ![j] = "done"]
               /\ frame' = [frame EXCEPT ![j] = NoFrame]
               /\ UNCHANGED <<raised, now>>
          ELSE /\ Fail(j, r.msg)
               /\ raised' = [raised EXCEPT ![j] = Some(r.msg)]
               /\ UNCHANGED now
    /\ UNCHANGED <<ocr, health, resp, returned, calls, ocr_out>>

\* database_service.py:86-119 followed by endpoints.py:104-120
PersistReturn(j, out) ==
    /\ pc[j] = "persist"
    /\ LET r == create_bill_record(bill_records, j, ValueOf(frame[j].bill_record),
                                   ValueOf(frame[j].image_path),
                                   ValueOf(frame[j].bill_text), out) IN
       /\ bill_records' = r.rows
       /\ IF r.ok
          THEN LET processing_time == now - task_status[j].start_time IN
               /\ task_status' = [task_status EXCEPT ![j] =
                      [@ EXCEPT !.status = "completed", !.record_id = r.record_id,
                                !.processing_time = Some(processing_time),
                                !.message = MsgDone]]
               /\ now' = now + 1
               /\ pc' = [pc EXCEPT ![j] = "done"]
               /\ frame' = [frame EXCEPT ![j] = NoFrame]
               /\ UNCHANGED raised
          ELSE /\ Fail(j, r.msg)
               /\ raised' = [raised EXCEPT ![j] = Some(r.msg)]
               /\ UNCHANGED now
    /\ UNCHANGED <<ocr, health, resp, returned, calls, ocr_out>>

\* one step of the background task of j
TaskStep(j) ==
    \/ StartTask(j)
    \/ \E out \in UploadOutcomes : UploadReturn(j, out)
    \/ \E out \in OcrOutcomes : OcrReturn(j, out)
    \/ \E out \in ParseOutcomes : ParseReturn(j, out)
    \/ \E out \in PersistOutcomes : PersistReturn(j, out)

Next ==
    \/ \E image \in Requests : analyze_bill(image)
    \/ \E id \in PollIds : get_task_status(id)
    \/ \E j \in Jobs : StartTask(j)
    \/ \E j \in Jobs, out \in UploadOutcomes : UploadReturn(j, out)
    \/ \E j \in Jobs, out \in OcrOutcomes : OcrReturn(j, out)
    \/ \E j \in Jobs, out \in ParseOutcomes : ParseReturn(j, out)
    \/ \E j \in Jobs, out \in PersistOutcomes : PersistReturn(j, out)

Spec == Init /\ [][Next]_vars

\* the event loop runs every scheduled coroutine, and every awaited call
\* returns: each background task keeps taking its steps
FairSpec == Spec /\ \A j \in Jobs : WF_vars(TaskStep(j))

\* ------------------------------------------------------ the OCR service
\* _reconstruct_text called with blocks that carry their own polygons
reconstruct_call ==
    /\ ocr.call = "none"
    /\ ocr' = [ocr EXCEPT !.call = "reconstruct",
                          !.given = BlocksOf(ocr.result),
                          !.out = reconstruct_text(BlocksOf(ocr.result))]
    /\ UNCHANGED <<task_status, pc, frame, bill_records, now, resp, returned,
                   calls, raised, ocr_out, health>>

\* ocr_service.py:139-158  extract_text_from_image after predict() returned:
\* an empty result gives "", else the kept blocks go to _reconstruct_text
extract_call ==
    /\ ocr.call = "none"
    /\ LET text_blocks == CollectBlocks(ocr.result, 1) IN
       ocr' = [ocr EXCEPT !.call = "extract",
                          !.given = text_blocks,
                          !.out = IF ocr.result = <<>>
                                  THEN [text |-> <<>>, text_blocks |-> <<>>,
                                        lines |-> <<>>, path |-> "empty"]
                                  ELSE reconstruct_text(text_blocks)]
    /\ UNCHANGED <<task_status, pc, frame, bill_records, now, resp, returned,
                   calls, raised, ocr_out, health>>

\* every predict() result of the bound, no pipeline job
OcrInit ==
    /\ ocr \in {OcrIdle(result) : result \in OcrResults}
    /\ health = HealthIdle
    /\ task_status = <<>>
    /\ pc = [j \in Jobs |-> "unused"]
    /\ frame = [j \in Jobs |-> NoFrame]
    /\ bill_records = {}
    /\ now = 0
    /\ resp = NoResp
    /\ returned = {}
    /\ calls = [j \in Jobs |-> NoCalls]
    /\ raised = [j \in Jobs |-> None]
    /\ ocr_out = [j \in Jobs |-> None]

OcrNext == reconstruct_call \/ extract_call

OcrSpec == OcrInit /\ [][OcrNext]_vars

\* ----------------------------------------------------------- GET /health
\* what list_buckets() does
MinioOutcomes == {"ok", "raise"}
\* what SELECT 1 does inside check_connection: it yields 1, it yields
\* something else, or the session or the statement raises
DbOutcomes == {"one", "other", "raise"}

\* endpoints.py:142-148: True unless list_buckets() raises
check_minio_health(out) == out = "ok"

\* database_service.py:76-84: True when SELECT 1 gave 1, False otherwise;
\* the exception is caught and logged, the call never raises
check_connection(out) == [raised |-> FALSE, value |-> out = "one"]

\* endpoints.py:151-157: the value check_connection returns is discarded
check_database_health(out) ==
    IF check_connection(out).raised THEN FALSE ELSE TRUE

\* endpoints.py:160-166
check_ai_health == TRUE

\* endpoints.py:126-127: the first value of the dict literal
HealthMinio(out) ==
    /\ health.at = "idle"
    /\ health' = [health EXCEPT !.at = "minio",
                     !.services_status = [NoStatus EXCEPT
                         !.minio = Some(check_minio_health(out))]]
    /\ UNCHANGED <<task_status, pc, frame, bill_records, now, resp, returned,
                   calls, raised, ocr_out, ocr>>

\* endpoints.py:128
HealthDatabase(out) ==
    /\ health.at = "minio"
    /\ health' = [health EXCEPT !.at = "database",
                     !.services_status.database = Some(check_database_health(out)),
                     !.services_status.db = Some(out)]
    /\ UNCHANGED <<task_status, pc, frame, bill_records, now, resp, returned,
                   calls, raised, ocr_out, ocr>>

\* endpoints.py:129
HealthAi ==
    /\ health.at = "database"
    /\ health' = [health EXCEPT !.at = "ai",
                     !.services_status.ai_service = Some(check_ai_health)]
    /\ UNCHANGED <<task_status, pc, frame, bill_records, now, resp, returned,
                   calls, raised, ocr_out, ocr>>

\* endpoints.py:133-139: all(services_status.values()) ; the timestamp is a
\* positive float and counts as true
HealthRespond ==
    /\ health.at = "ai"
    /\ LET st == health.services_status
           all_healthy == /\ ValueOf(st.minio) /\ ValueOf(st.database)
                          /\ ValueOf(st.ai_service) IN
       health' = [at |-> "idle", services_status |-> NoStatus,
                  code |-> IF all_healthy THEN 200 ELSE 503,
                  content |-> st]
    /\ UNCHANGED <<task_status, pc, frame, bill_records, now, resp, returned,
                   calls, raised, ocr_out, ocr>>

\* health_check
HealthNext ==
    \/ \E out \in MinioOutcomes : HealthMinio(out)
    \/ \E out \in DbOutcomes : HealthDatabase(out)
    \/ HealthAi
    \/ HealthRespond

HealthSpec == Init /\ [][HealthNext]_vars

\* ================================================================ claims
\* The Stage of the specification, read off a status dict: the status field
\* decides the two terminal stages, the message the others.
Stage(entry) ==
    IF entry.status = "completed" THEN "Completed"
    ELSE IF entry.status = "failed" THEN "Failed"
    ELSE IF entry.message = MsgStart THEN "Queued"
    ELSE IF entry.message = MsgUpload THEN "Uploading"
    ELSE IF entry.message = MsgOcr THEN "Extracting"
    ELSE IF entry.message = MsgParse THEN "Parsing"
    ELSE IF entry.message = MsgSave THEN "Persisting"
    ELSE "Unknown"

StageOrder == <<"Queued", "Uploading", "Extracting", "Parsing", "Persisting",
                "Completed">>
Rank(s) == CHOOSE i \in 1..Len(StageOrder) : StageOrder[i] = s
Terminal(entry) == entry.status \in {"completed", "failed"}

\* a may be followed by b: the same stage, the next one of the order, or
\* Failed out of a stage in which a step is running
StageStep(a, b) ==
    \/ a = b
    \/ a # "Failed" /\ b # "Failed" /\ Rank(b) = Rank(a) + 1
    \/ a \in {"Uploading", "Extracting", "Parsing", "Persisting"} /\ b = "Failed"

\* a poll that saw a may be followed by a poll that sees b
StageLater(a, b) ==
    \/ a = b
    \/ a # "Failed" /\ b # "Failed" /\ Rank(b) > Rank(a)
    \/ a \notin {"Completed", "Failed"} /\ b = "Failed"

IsPoll(r, j) == r.op = "get" /\ r.code = 200 /\ r.id = Some(j)
Records(j) == {r \in bill_records : r.task = j}

\* C1: the stages of a job advance one at a time along Queued, Uploading,
\* Extracting, Parsing, Persisting, Completed (or end in Failed); an entry
\* starts at Queued; and two polls of a job in a row never see it go back.
C1_StagesInOrder ==
    [][ /\ \A j \in DOMAIN task_status' :
             IF j \in DOMAIN task_status
             THEN StageStep(Stage(task_status[j]), Stage(task_status'[j]))
             ELSE Stage(task_status'[j]) = "Queued"
        /\ \A j \in Jobs :
             IsPoll(resp, j) /\ IsPoll(resp', j)
                 => StageLater(Stage(ValueOf(resp.body)), Stage(ValueOf(resp'.body)))
      ]_vars

\* a job is Completed and the last poll of it saw it in Parsing
C1_Witness ==
    \E j \in DOMAIN task_status :
        /\ Stage(task_status[j]) = "Completed"
        /\ IsPoll(resp, j)
        /\ Stage(ValueOf(resp.body)) = "Parsing"

\* C2: a Completed job has exactly one row in bill_records and a Failed job
\* has none.
C2_OneRecordPerCompletedJob ==
    \A j \in DOMAIN task_status :
        /\ task_status[j].status = "completed" => Cardinality(Records(j)) = 1
        /\ task_status[j].status = "failed" => Cardinality(Records(j)) = 0

\* C3: once the entry of a job shows completed or failed no step changes
\* it, and a poll that follows a poll of the terminal entry gets the same
\* answer.
C3_TerminalIsFinal ==
    [][ /\ \A j \in DOMAIN task_status :
             Terminal(task_status[j])
                 => j \in DOMAIN task_status' /\ task_status'[j] = task_status[j]
        /\ \A j \in Jobs :
             IsPoll(resp, j) /\ Terminal(ValueOf(resp.body)) /\ IsPoll(resp', j)
                 => resp' = resp
      ]_vars

\* a failed job whose terminal entry has been polled
C3_Witness ==
    \E j \in DOMAIN task_status :
        /\ task_status[j].status = "failed"
        /\ IsPoll(resp, j)
        /\ ValueOf(resp.body) = task_status[j]

\* C4: a job whose id analyze_bill returned ends up completed or failed.
C4_EventuallyTerminal ==
    \A j \in Jobs :
        (j \in returned) ~> (j \in DOMAIN task_status /\ Terminal(task_status[j]))

\* a returned job that went through all steps
C4_Witness ==
    \E j \in returned : task_status[j].status = "completed"

\* C5: an id analyze_bill returned has an entry from then on, and no poll
\* of it is answered 404.
C5_ReturnedIdIsKnown ==
    /\ returned \subseteq DOMAIN task_status
    /\ \A j \in returned : resp.op = "get" /\ resp.id = Some(j) => resp.code = 200

\* a returned id polled before its task has started
C5_Witness ==
    \E j \in returned : IsPoll(resp, j) /\ Stage(ValueOf(resp.body)) = "Queued"

\* C6: a parse result with an amount that is not positive makes the job
\* fail: the database step is not invoked for it, no row carries such an
\* amount, and the job is never Completed with such a row.
C6_NonPositiveAmountFails ==
    /\ \A j \in Jobs :
          frame[j].bill_record # None /\ ValueOf(frame[j].bill_record) <= 0
              => calls[j].persist = 0
    /\ \A r \in bill_records : r.amount > 0

\* C7: when extract_text_from_image fails inside, the parse and database
\* steps are not invoked, and the job ends failed with the error of the
\* extraction (its message, bare or in the text the OCR service builds).
C7_OcrFailureFailsJob ==
    \A j \in Jobs :
        ocr_out[j] # None /\ ValueOf(ocr_out[j]).kind = "raise"
            => /\ calls[j].parse = 0
               /\ calls[j].persist = 0
               /\ pc[j] = "done"
               /\ task_status[j].status = "failed"
               /\ task_status[j].error_message \in
                      { Some(ValueOf(ocr_out[j]).text),
                        Some(OcrErrorText(ValueOf(ocr_out[j]).text)) }

\* C8: a returned text of fewer than 10 characters after trimming (the empty
\* text included) fails the job with the insufficient-text error before the
\* parse and database steps are invoked; a text of 10 or more trimmed
\* characters never gives that error.
C8_InsufficientText ==
    \A j \in Jobs :
        ocr_out[j] # None =>
            LET t == extract_text_from_image(ValueOf(ocr_out[j])) IN
            IF Len(Strip(t)) < MinTextLen
            THEN /\ task_status[j].status = "failed"
                 /\ task_status[j].error_message = Some(InsufficientText)
                 /\ calls[j].parse = 0
                 /\ calls[j].persist = 0
            ELSE task_status[j].error_message # Some(InsufficientText)

\* a text that is long enough only before trimming has failed a job
C8_Witness ==
    \E j \in Jobs :
        /\ ocr_out[j] # None
        /\ ValueOf(ocr_out[j]).kind = "text"
        /\ Len(ValueOf(ocr_out[j]).text) >= MinTextLen
        /\ task_status[j].error_message = Some(InsufficientText)

\* C9 as stated: the final message and the error field of a failed job are
\* both the message of the failing step.
C9_MessageAndErrorAreLiteral ==
    \A j \in DOMAIN task_status :
        task_status[j].status = "failed"
            => /\ task_status[j].error_message = raised[j]
               /\ Some(task_status[j].message) = raised[j]

\* C9 amended: the error field of a failed job is the message of the
\* exception that reached the handler, and the final message is the fixed
\* text "processing failed".
C9_ErrorIsLiteral ==
    \A j \in DOMAIN task_status :
        task_status[j].status = "failed"
            => /\ raised[j] # None
               /\ task_status[j].error_message = raised[j]
               /\ task_status[j].message = MsgFailed

\* a job failed by the parse step carries the wrapped message of that step
C9_Witness ==
    \E j \in DOMAIN task_status :
        /\ task_status[j].status = "failed"
        /\ calls[j].parse = 1
        /\ calls[j].persist = 0
        /\ task_status[j].error_message = Some(Wrap("AI bill analysis failed: ", <<"e">>))

\* C10: each of the four steps is invoked at most once per job, and a
\* Completed job has invoked each exactly once.
C10_StepsAtMostOnce ==
    \A j \in Jobs :
        /\ calls[j].upload <= 1 /\ calls[j].ocr <= 1
        /\ calls[j].parse <= 1 /\ calls[j].persist <= 1
        /\ (j \in DOMAIN task_status /\ task_status[j].status = "completed")
               => calls[j] = [upload |-> 1, ocr |-> 1, parse |-> 1, persist |-> 1]

\* one job completed and another failed in its upload, which was not retried
C10_Witness ==
    \E j, k \in DOMAIN task_status :
        /\ task_status[j].status = "completed"
        /\ task_status[k].status = "failed"
        /\ calls[k] = [upload |-> 1, ocr |-> 0, parse |-> 0, persist |-> 0]

\* what one atomic update of process_bill_analysis leaves in a status dict:
\* the fields of each transition are there together
Consistent(entry) ==
    IF entry.status = "completed"
    THEN /\ entry.message = MsgDone
         /\ entry.record_id # None /\ entry.processing_time # None
         /\ entry.image_path # None /\ entry.ocr_text_length # None
         /\ entry.error_message = None
    ELSE IF entry.status = "failed"
    THEN /\ entry.message = MsgFailed
         /\ entry.error_message # None
         /\ entry.record_id = None /\ entry.processing_time = None
    ELSE /\ entry.status = "processing"
         /\ entry.message \in {MsgStart, MsgUpload, MsgOcr, MsgParse, MsgSave}
         /\ (entry.image_path # None) = (entry.message \in {MsgOcr, MsgParse, MsgSave})
         /\ (entry.ocr_text_length # None) = (entry.message \in {MsgParse, MsgSave})
         /\ entry.record_id = None /\ entry.processing_time = None
         /\ entry.error_message = None

Running(j) == pc[j] \in {"scheduled", "upload", "ocr", "parse", "persist"}

\* C11: with several jobs running and polled, every answer of get_task_status
\* (and every entry of task_status) shows the fields of a transition
\* together, never a part of an update.
C11_NoTornSnapshot ==
    /\ \A j \in DOMAIN task_status : Consistent(task_status[j])
    /\ \A j \in Jobs : IsPoll(resp, j) => Consistent(ValueOf(resp.body))

\* a poll saw a completed job while another job was running
C11_Witness ==
    \E j, k \in Jobs :
        /\ j # k
        /\ IsPoll(resp, j)
        /\ ValueOf(resp.body).status = "completed"
        /\ Running(k)

\* C12: a submission whose content type is not an image type changes
\* neither task_status nor any task: no entry, no scheduled task, no call of
\* a step.
C12_RejectedSubmissionDoesNothing ==
    [][ \A image \in Requests :
            ContentTypeCheck(image.content_type) # "image" /\ analyze_bill(image)
                => UNCHANGED <<task_status, pc, frame, calls, bill_records, returned>>
      ]_vars

\* a submission was refused while a job was running and no entry is without
\* a task
C12_Witness ==
    /\ resp.op = "submit" /\ resp.code = 500
    /\ \A j \in Jobs : pc[j] # "orphan"
    /\ \E j \in Jobs : pc[j] = "upload"
    /\ Cardinality(DOMAIN task_status) = 1

C14_SideDataRetained ==
    [][ \A j \in DOMAIN task_status :
          /\ j \in DOMAIN task_status'
          /\ task_status[j].image_path # None
                => task_status'[j].image_path = task_status[j].image_path
          /\ task_status[j].ocr_text_length # None
                => task_status'[j].ocr_text_length = task_status[j].ocr_text_length
          /\ (task_status'[j].status = "failed" /\ calls[j].ocr = 1)
                => task_status'[j].image_path = Some(ObjectName(j, "png"))
          /\ (task_status'[j].status = "failed" /\ calls[j].parse = 1)
                => task_status'[j].ocr_text_length # None
      ]_vars

\* a job that failed in the database step still carries both
C14_Witness ==
    \E j \in DOMAIN task_status :
        /\ task_status[j].status = "failed"
        /\ calls[j].persist = 1
        /\ task_status[j].image_path # None
        /\ task_status[j].ocr_text_length # None

\* C19: a step of the background task of a job leaves the entries of all
\* other jobs alone; an entry is created only by analyze_bill and changed
\* only by the task of its own job; get_task_status writes nothing.
C19_SingleWriter ==
    [][ /\ \A j \in Jobs :
             TaskStep(j) => /\ DOMAIN task_status' = DOMAIN task_status
                            /\ \A k \in DOMAIN task_status \ {j} :
                                   task_status'[k] = task_status[k]
        /\ \A k \in DOMAIN task_status' :
             IF k \in DOMAIN task_status
             THEN task_status'[k] # task_status[k] => TaskStep(k)
             ELSE \E image \in Requests : analyze_bill(image)
        /\ (\E id \in PollIds : get_task_status(id)) => UNCHANGED task_status
      ]_vars

\* the task of one job took a step while another job had an entry
C19_Witness ==
    \E j, k \in DOMAIN task_status :
        /\ j # k
        /\ pc[j] = "parse"
        /\ Stage(task_status[k]) = "Queued"

\* C20: get_task_status for an id that analyze_bill never returned answers
\* 404 and leaves task_status as it was.
C20_UnknownIdIsNotFound ==
    \A id \in PollIds :
        (id \notin returned /\ resp.op = "get" /\ resp.id = Some(id))
            => resp.code = 404

\* ---- claims about _reconstruct_text and the confidence filter (OcrSpec)
Primary == ocr.call = "reconstruct" /\ ocr.out.path = "primary"
Idxs(blocks) == {blocks[k].idx : k \in DOMAIN blocks}
GivenYs == {MinY(ocr.given[k]) : k \in DOMAIN ocr.given}

\* the lines the code built, as sets of blocks
CodePartition == {Idxs(ocr.out.lines[l]) : l \in DOMAIN ocr.out.lines}

\* The partition of a top-Y-sorted list by a greedy rule: block i stays in
\* the line of block i-1 when its top Y is within y_threshold of the
\* reference block, which is the first block of that line (rule "first") or
\* block i-1 (rule "last"); start[i] is the index that opens the line of i.
RulePartition(sorted, rule) ==
    LET n == Len(sorted)
        start[i \in 1..n] ==
            IF i = 1 THEN 1
            ELSE LET ref == IF rule = "first" THEN start[i - 1] ELSE i - 1 IN
                 IF Abs(MinY(sorted[i]) - MinY(sorted[ref])) <= y_threshold
                 THEN start[i - 1] ELSE i
    IN {{sorted[k].idx : k \in {k \in 1..n : start[k] = start[i]}} : i \in 1..n}

\* C15 as stated: the lines of the code are those of the rule that compares
\* a block with the FIRST block of the current line.
C15_JoinsByFirstFragment ==
    Primary => CodePartition = RulePartition(ocr.out.text_blocks, "first")

\* C15: a block joins the current line exactly when its top Y is within 20
\* of the top Y of the block added LAST to that line, else it opens a new
\* line; the lines of the code are the partition of this rule.
C15_JoinsByLastFragment ==
    Primary => CodePartition = RulePartition(ocr.out.text_blocks, "last")

\* top Ys 0, 15, 30 end up in one line
C15_Witness ==
    /\ Primary
    /\ GivenYs = {0, 15, 30}
    /\ Len(ocr.out.lines) = 1

\* the text of lines joined by a newline, each line joined by a space
Rendered(lines) ==
    Join(<<"\n">>, [l \in DOMAIN lines |-> Join(<<" ">>, Texts(lines[l]))])

\* C16: the lines come in ascending top Y, the blocks of a line in
\* ascending min X, and the text is the blocks of a line joined by one
\* space and the lines joined by a newline (trimmed at both ends); A at
\* x = 0 and B at x = 100 in one band give "A B" in either input order, and
\* A at y = 0, E at y = 50 give "A\nE".
C16_LinesInReadingOrder ==
    Primary =>
        LET lines == ocr.out.lines
            DetA == CHOOSE d \in Detections : d.text = <<"A">>
            DetB == CHOOSE d \in Detections : d.text = <<"B">>
            DetE == CHOOSE d \in Detections : d.text = <<"E">> IN
        /\ \A l, m \in DOMAIN lines :
              l < m => \A a \in DOMAIN lines[l], b \in DOMAIN lines[m] :
                           MinY(lines[l][a]) <= MinY(lines[m][b])
        /\ \A l \in DOMAIN lines : \A a, b \in DOMAIN lines[l] :
              a < b => MinX(lines[l][a]) <= MinX(lines[l][b])
        /\ ocr.out.text = Strip(Rendered(lines))
        /\ ocr.result \in {<<DetA, DetB>>, <<DetB, DetA>>}
              => ocr.out.text = <<"A", " ", "B">>
        /\ ocr.result \in {<<DetA, DetE>>, <<DetE, DetA>>}
              => ocr.out.text = <<"A", "\n", "E">>

\* B was passed before A and a second line follows
C16_Witness ==
    /\ Primary
    /\ Len(ocr.given) = 3
    /\ Texts(ocr.given) = << <<"B">>, <<"E">>, <<"A">> >>
    /\ ocr.out.text = <<"A", " ", "B", "\n", "E">>

Letters(t) == {t[k] : k \in DOMAIN t} \ {" ", "\n"}

\* C17: extract_text_from_image keeps exactly the fragments whose score is
\* above 0.5: the text of a kept fragment is in the extracted text, the
\* text of a dropped one is not (unless a kept fragment reads the same),
\* and when nothing is kept the extracted text is empty.
C17_ConfidenceFilter ==
    ocr.call = "extract" =>
        /\ \A i \in DOMAIN ocr.result :
              IF ocr.result[i].score > MinScore
              THEN /\ i \in Idxs(ocr.given)
                   /\ Letters(ocr.result[i].text) \subseteq Letters(ocr.out.text)
              ELSE /\ i \notin Idxs(ocr.given)
                   /\ (\A k \in DOMAIN ocr.given :
                          ocr.given[k].text # ocr.result[i].text)
                        => Letters(ocr.result[i].text) \cap Letters(ocr.out.text) = {}
        /\ (\A i \in DOMAIN ocr.result : ocr.result[i].score <= MinScore)
              => ocr.out.text = <<>>

\* fragments at 0.4, at 0.5 and above were detected and only the last is in
\* the text
C17_Witness ==
    /\ ocr.call = "extract"
    /\ {ocr.result[i].score : i \in DOMAIN ocr.result} = {4, 5, 9}
    /\ ocr.out.text = <<"A">>

\* C18: when a step of the reconstruction raises, _reconstruct_text returns
\* the texts joined by single spaces in the order the blocks were passed in.
C18_FallbackKeepsGivenOrder ==
    ocr.out.path = "fallback" => ocr.out.text = Join(<<" ">>, Texts(ocr.given))

WellFormed(blocks) == \A i \in DOMAIN blocks : ~XKeyRaises(blocks[i])

\* C21: _reconstruct_text of an empty list returns the empty string, and of
\* a single well-formed block returns the text of that block, character
\* for character.
C21_EmptyAndSingleFragment ==
    (ocr.call = "reconstruct" /\ WellFormed(ocr.given)) =>
        /\ ocr.given = <<>> => (ocr.out.text = <<>> /\ ocr.out.path = "empty")
        /\ Len(ocr.given) = 1 => ocr.out.text = ocr.given[1].text

\* a step of job j has failed: the job is marked failed, or text
\* extraction raised inside extract_text_from_image
StageFailed(j) ==
    \/ j \in DOMAIN task_status /\ task_status[j].status = "failed"
    \/ ocr_out[j] # None /\ ValueOf(ocr_out[j]).kind = "raise"

\* C22: within a job a step is invoked only by the step of the same job
\* that saw the previous one return successfully, and once a step of the
\* job has failed no further step is invoked for it.
C22_SequentialUntilFailure ==
    [][ \A j \in Jobs :
          /\ calls'[j].ocr > calls[j].ocr
                => /\ pc[j] = "upload" /\ calls[j].upload = 1
                   /\ task_status'[j].image_path # None
          /\ calls'[j].parse > calls[j].parse
                => /\ pc[j] = "ocr" /\ calls[j].ocr = 1
                   /\ ValueOf(ocr_out'[j]).kind = "text"
          /\ calls'[j].persist > calls[j].persist
                => /\ pc[j] = "parse" /\ calls[j].parse = 1
                   /\ raised'[j] = None
          /\ (StageFailed(j) \/ StageFailed(j)') => calls'[j] = calls[j]
      ]_vars

\* the detections above the threshold, each with its own polygon
KeptWithOwnPolygon ==
    LET Kept(block) == block.score > MinScore IN SelectSeq(BlocksOf(ocr.result), Kept)

\* C23: when the kept fragments have well-formed polygons, the text
\* extract_text_from_image returns is the primary-path reconstruction of
\* those fragments by their own polygons, and the fallback order is not
\* taken.
C23_ExtractUsesOwnPolygons ==
    (ocr.call = "extract" /\ WellFormed(KeptWithOwnPolygon)) =>
        /\ ocr.out.text = reconstruct_text(KeptWithOwnPolygon).text
        /\ ocr.out.path # "fallback"

\* C24: a submission that fails leaves task_status unchanged, so every
\* entry of task_status belongs to a job whose background task was
\* scheduled (and is waiting, running or has ended).
C24_EveryEntryHasATask ==
    \A j \in DOMAIN task_status : Running(j) \/ pc[j] = "done"

Count(c, t) == Cardinality({k \in DOMAIN t : t[k] = c})
\* s is t in some order: every idx of t once
IsPermutation(s, t) ==
    /\ Len(s) = Len(t)
    /\ \A i \in DOMAIN t : Cardinality({k \in DOMAIN s : s[k] = t[i]}) = 1

\* C25: the text _reconstruct_text returns holds the text of every block it
\* was given exactly once: on the primary path the lines, the last one
\* included, are a partition of the blocks, on the fallback path the joined
\* list is the given list in some order, and on both the text has every
\* character of the given texts as often as they have it (blanks aside).
C25_EveryFragmentOnce ==
    ocr.call # "none" =>
        LET given == ocr.given
            all == Join(<<>>, Texts(given)) IN
        /\ ocr.out.path = "primary" =>
              /\ \A i \in DOMAIN given :
                    Cardinality({l \in DOMAIN ocr.out.lines :
                                    given[i].idx \in Idxs(ocr.out.lines[l])}) = 1
              /\ \A l \in DOMAIN ocr.out.lines :
                    /\ ocr.out.lines[l] # <<>>
                    /\ \A a, b \in DOMAIN ocr.out.lines[l] :
                          a # b => ocr.out.lines[l][a].idx # ocr.out.lines[l][b].idx
                    /\ Idxs(ocr.out.lines[l]) \subseteq Idxs(given)
        /\ ocr.out.path = "fallback" => IsPermutation(ocr.out.text_blocks, given)
        /\ \A c \in Letters(all) \cup Letters(ocr.out.text) :
              Count(c, ocr.out.text) = Count(c, all)

\* three blocks, two of them with the same text, came out in two lines
C25_Witness ==
    /\ Primary
    /\ Len(ocr.given) = 3
    /\ ocr.given[1].text = ocr.given[3].text
    /\ Len(ocr.out.lines) = 2
    /\ Len(ocr.out.lines[2]) = 1

\* C26: a health response reports the database healthy only when the
\* connection check succeeded; when SELECT 1 failed, the response marks the
\* database unhealthy and its status is 503.
C26_DatabaseHealthIsChecked ==
    health.content.db # None =>
        /\ ValueOf(health.content.database) => ValueOf(health.content.db) = "one"
        /\ ValueOf(health.content.db) # "one" => health.code = 503

====
